---- MODULE Spec2Model ----
(***************************************************************************)
(* Browser extension of asialea/hackweek.                                  *)
(*                                                                         *)
(*   content.js    - the Capture Scheduler of one page instance and its    *)
(*                   delivery path (captureNow, postCapture, the debounce  *)
(*                   and heartbeat timers, the visibility listener).       *)
(*   background.js - the Session Manager: startAuthFlow, getToken and the  *)
(*                   chrome.runtime.onMessage handlers.                    *)
(*                                                                         *)
(* Both contexts are single-threaded: a callback runs to its next await,   *)
(* so every action below is one such run.  chrome.storage.local is the     *)
(* variable store, shared by both contexts.  Time is in milliseconds and    *)
(* relative: a timer holds the time left until it fires, a stored expiry   *)
(* the time left until Date.now() reaches it.                              *)
(***************************************************************************)
EXTENDS Integers, Sequences, FiniteSets, TLC

VARIABLES
  \* ---- content.js, one scheduler instance
  visibilityState,   \* document.visibilityState
  lastCapturedHash,  \* <<>> stands for null
  isUserActive,
  backoffMult,
  activityTimer,     \* ms until the debounce timer fires, NoTimer if none pending
  heartbeatTimer,    \* ms until the heartbeat timer fires, NoTimer if none pending
  initialTimer,      \* the setTimeout(..., 1000) of content.js:160
  saveData,          \* navigator.connection.saveData
  batteryFactor,
  \* ---- shared
  store,             \* chrome.storage.local
  \* ---- background.js
  requests,          \* messages in flight: the onMessage handler of each and,
                     \* for a lookup of postCapture, its callback and fetch
  tokenExchangeUrl,  \* whether AUTH_CONFIG.tokenExchangeUrl is set
  \* ---- observation only (never read by an action's guard or effect)
  attempt,           \* what captureNow did in the last step: "none" when it
                     \* did not run, "dropped" (page not visible or no text),
                     \* "duplicate" (hash === lastCapturedHash) or "handed"
                     \* (to postCapture)
  handed,            \* the hashes ever handed to postCapture
  scheduled,         \* whether the last step ran scheduleHeartbeat
  consecFails,       \* delivery failures since the last success, up to MaxFails
  postFailed,        \* whether the fetch that settled last failed (!r.ok or threw)
  sinceDebounce      \* ms since the debounce callback ran captureNow on a visible
                     \* page, up to HEARTBEAT_BASE; NoTimer once an activity
                     \* event, a visibility change or a further capture attempt
                     \* has followed it

schedVars == <<visibilityState, lastCapturedHash, isUserActive, backoffMult,
               activityTimer, heartbeatTimer, initialTimer, saveData, batteryFactor>>
obsVars == <<attempt, handed, scheduled, consecFails, postFailed, sinceDebounce>>
vars == <<schedVars, store, requests, tokenExchangeUrl, obsVars>>

---------------------------------------------------------------------------
(* Program constants *)
IDLE_CAPTURE_DELAY == 5000
HEARTBEAT_BASE == 20000
DEDUP_CHARS == 200
MAX_BACKOFF_MULT == 8
MIN_HEARTBEAT == 5000
INITIAL_CAPTURE_DELAY == 1000
EXPIRY_MARGIN == 30000
LOW_BATTERY == 20

(* Bounds of the model *)
\* message slots at the background context (lookups of the page in flight)
MaxReq == 2
\* consecutive delivery failures counted by consecFails
MaxFails == 4
\* messages of other contexts outstanding at the background context at a time
MaxInFlight == 1

NoTimer == -1
NoExpiry == -1
None == "none"

Min(a, b) == IF a <= b THEN a ELSE b
Max(a, b) == IF a >= b THEN a ELSE b

RECURSIVE Pow2(_)
Pow2(n) == IF n = 0 THEN 1 ELSE 2 * Pow2(n - 1)

---------------------------------------------------------------------------
(* Page texts: two long texts that share their first DEDUP_CHARS           *)
(* characters, a short one, and the empty extraction.                      *)
Rep(c, n) == [i \in 1..n |-> c]
LongX == Rep("a", DEDUP_CHARS) \o <<"x">>
LongY == Rep("a", DEDUP_CHARS) \o <<"y">>
Short == <<"b", "c">>
Texts == {<< >>, Short, LongX, LongY}

\* String.prototype.slice(0, n)
Slice(text, n) == SubSeq(text, 1, Min(n, Len(text)))

\* what the provider and the network can hand back, and what randomString draws
Tokens == {"t2"}
Emails == {"e1"}
Nonces == {"n1", "n2"}
Verifiers == {"v1"}
Codes == {"c1"}
\* expires_in in seconds, around the 30 s margin of getToken
ExpiresIn == {29, 30, 31}
\* how long the clock may run while no timer of the page is pending, in ms
TimeSteps == {30000}

---------------------------------------------------------------------------
(* content.js: pure helpers *)

\* getSaveDataFactor
SaveDataFactor(sd) == IF sd THEN 2 ELSE 1

\* updateBattery; level is batt.level in hundredths, so that batt.level < 0.2
\* reads level < 20
BatteryFactorOf(charging, level) == IF ~charging /\ level < LOW_BATTERY THEN 4 ELSE 1

effectiveInterval(b, sd, bf) == HEARTBEAT_BASE * b * SaveDataFactor(sd) * bf

\* variant: the base interval whatever the factors
HeartbeatDelayBaseOnly(b, sd, bf) == Max(MIN_HEARTBEAT, HEARTBEAT_BASE)
\* variant: the heartbeat scheduled with the debounce delay
HeartbeatDelayDebounce(b, sd, bf) == IDLE_CAPTURE_DELAY
\* variant: the delay without the save-data and battery factors
HeartbeatDelayBackoffOnly(b, sd, bf) == Max(MIN_HEARTBEAT, HEARTBEAT_BASE * b)
\* the delay scheduleHeartbeat hands to setTimeout
HeartbeatDelay(b, sd, bf) == Max(MIN_HEARTBEAT, effectiveInterval(b, sd, bf))

\* variant: doubling without the ceiling
BackoffOnFailureUncapped(b) == b * 2
\* backoffMult after a failed delivery
BackoffOnFailure(b) == Min(MAX_BACKOFF_MULT, b * 2)

\* variant: a success that leaves the multiplier alone
BackoffOnSuccessKept(b) == b
\* backoffMult after a successful delivery
BackoffOnSuccess(b) == 1

\* variant: an empty text is not dropped
DroppedUnlessEmpty(vis, hash, last) == vis # "visible" \/ hash = last
\* variant: captureNow without the comparison to lastCapturedHash
DroppedNoCompare(vis, hash, last) == vis # "visible" \/ hash = << >>
\* captureNow's three early returns
Dropped(vis, hash, last) == vis # "visible" \/ hash = << >> \/ hash = last

---------------------------------------------------------------------------
(* Records *)

NoResp == [kind |-> "none", token |-> None, email |-> None]

FreeReq ==
  [type |-> "none", interactive |-> FALSE, from |-> "none", pc |-> "free",
   token |-> None, expiresIn |-> 0,
   fragTok |-> None, code |-> None,
   sentVerifier |-> None, outcome |-> "none", resp |-> NoResp,
   launched |-> FALSE, exchanged |-> FALSE, wrote |-> FALSE, mismatch |-> FALSE,
   sent |-> 0, authorization |-> None, state |-> None, beforeLogout |-> FALSE]

\* a message as the onMessage listener receives it
NewReq(type, interactive, from) ==
  [FreeReq EXCEPT !.type = type, !.interactive = interactive, !.from = from,
                  !.pc = IF type = "START_LOGIN" THEN "authInit"
                         ELSE IF type = "LOGOUT" THEN "logoutRead" ELSE "recv"]

\* the message postCapture sends
ContentLookupMsg == [type |-> "GET_USER_EMAIL", interactive |-> FALSE]

ReqIds == 1..MaxReq

HasFree(reqs) == \E r \in ReqIds : reqs[r] = FreeReq
FirstFree(reqs) == CHOOSE r \in ReqIds : reqs[r] = FreeReq /\ \A q \in ReqIds : q < r => reqs[q] # FreeReq

---------------------------------------------------------------------------
(* content.js: postCapture and captureNow, as the effect of one call *)

\* postCapture(text) up to the return of chrome.runtime.sendMessage; throws says
\* whether sendMessage throws (the catch of content.js:105)
PostCapture(text, throws, b, reqs, fails) ==
  IF text = << >>
  THEN [ok |-> TRUE, backoff |-> b, reqs |-> reqs, sched |-> FALSE, fails |-> fails]
  ELSE IF throws
  THEN [ok |-> TRUE, backoff |-> BackoffOnFailure(b), reqs |-> reqs,
        sched |-> TRUE, fails |-> Min(MaxFails, fails + 1)]
  ELSE IF HasFree(reqs)
  THEN [ok |-> TRUE, backoff |-> b,
        reqs |-> [reqs EXCEPT ![FirstFree(reqs)] =
                    NewReq(ContentLookupMsg.type, ContentLookupMsg.interactive, "content")],
        sched |-> FALSE, fails |-> fails]
  ELSE [ok |-> FALSE, backoff |-> b, reqs |-> reqs, sched |-> FALSE, fails |-> fails]

\* no capture attempt in this step
NoCapture ==
  [ok |-> TRUE, last |-> lastCapturedHash, backoff |-> backoffMult,
   reqs |-> requests, store |-> store, sched |-> FALSE, fails |-> consecFails,
   attempt |-> "none", handed |-> handed]

\* captureNow() with document.visibilityState = vis, where visibleViewportText()
\* returns text
CaptureNow(vis, text, throws) ==
  LET hash == Slice(text, DEDUP_CHARS)
  IN IF Dropped(vis, hash, lastCapturedHash)
     THEN [NoCapture EXCEPT !.attempt = IF vis = "visible" /\ hash # << >>
                                        THEN "duplicate" ELSE "dropped"]
     ELSE LET p == PostCapture(text, throws, backoffMult, requests, consecFails)
          IN [ok |-> p.ok, last |-> hash, backoff |-> p.backoff,
              reqs |-> p.reqs, store |-> [store EXCEPT !.lastCapturedText = text],
              sched |-> p.sched, fails |-> p.fails,
              attempt |-> "handed", handed |-> handed \cup {hash}]

ApplyCapture(c) ==
  /\ lastCapturedHash' = c.last
  /\ backoffMult' = c.backoff
  /\ requests' = c.reqs
  /\ store' = c.store
  /\ consecFails' = c.fails
  /\ UNCHANGED postFailed
  /\ attempt' = c.attempt
  /\ handed' = c.handed

\* variant: the pending timer is cleared and no new one is set
ScheduleHeartbeatClearOnly(b) ==
  /\ heartbeatTimer' = NoTimer
  /\ scheduled' = FALSE
\* scheduleHeartbeat() with backoffMult = b
ScheduleHeartbeat(b) ==
  /\ heartbeatTimer' = HeartbeatDelay(b, saveData, batteryFactor)
  /\ scheduled' = TRUE

\* a step that does not run captureNow
Quiet ==
  /\ attempt' = "none"
  /\ UNCHANGED handed

\* a step that runs neither captureNow nor scheduleHeartbeat
Idle ==
  /\ Quiet
  /\ scheduled' = FALSE
  /\ UNCHANGED postFailed

---------------------------------------------------------------------------
(* content.js: the callbacks *)

\* onUserActivity
UserActivity ==
  /\ isUserActive' = TRUE
  /\ activityTimer' = IDLE_CAPTURE_DELAY
  /\ heartbeatTimer' = NoTimer
  /\ Idle
  /\ UNCHANGED <<visibilityState, lastCapturedHash, backoffMult, initialTimer,
                 saveData, batteryFactor, store, requests,
                 tokenExchangeUrl, consecFails>>
  /\ sinceDebounce' = NoTimer

\* the debounce callback of onUserActivity
ActivityTimerFire ==
  /\ activityTimer = 0
  /\ \E text \in Texts, throws \in BOOLEAN :
       LET c == CaptureNow(visibilityState, text, throws)
       IN /\ c.ok
          /\ ApplyCapture(c)
          /\ ScheduleHeartbeat(c.backoff)
  /\ isUserActive' = FALSE
  /\ activityTimer' = NoTimer
  /\ sinceDebounce' = IF visibilityState = "visible" THEN 0 ELSE NoTimer
  /\ UNCHANGED <<visibilityState, initialTimer, saveData, batteryFactor, tokenExchangeUrl>>

\* the heartbeat callback of scheduleHeartbeat
HeartbeatFire ==
  /\ heartbeatTimer = 0
  /\ \E text \in Texts, throws \in BOOLEAN :
       LET c == IF ~isUserActive /\ visibilityState = "visible"
                THEN CaptureNow(visibilityState, text, throws) ELSE NoCapture
       IN /\ c.ok
          /\ ApplyCapture(c)
          /\ ScheduleHeartbeat(c.backoff)
  /\ sinceDebounce' = IF attempt' = "none" THEN sinceDebounce ELSE NoTimer
  /\ UNCHANGED <<visibilityState, isUserActive, activityTimer, initialTimer,
                 saveData, batteryFactor, tokenExchangeUrl>>

\* the visibilitychange listener, run on a change to vis
VisibilityChange ==
  \E vis \in {"visible", "hidden"} \ {visibilityState}, text \in Texts, throws \in BOOLEAN :
    /\ visibilityState' = vis
    /\ IF vis # "visible"
       THEN /\ heartbeatTimer' = NoTimer
            /\ Idle
            /\ UNCHANGED <<lastCapturedHash, backoffMult, requests, store,
                           consecFails>>
       ELSE LET c == CaptureNow(vis, text, throws)
            IN /\ c.ok
               /\ ApplyCapture(c)
               /\ ScheduleHeartbeat(c.backoff)
    /\ sinceDebounce' = NoTimer
    /\ UNCHANGED <<isUserActive, activityTimer, initialTimer, saveData,
                   batteryFactor, tokenExchangeUrl>>

\* the initial passive capture, setTimeout(..., 1000)
InitialCaptureFire ==
  /\ initialTimer = 0
  /\ \E text \in Texts, throws \in BOOLEAN :
       LET c == IF ~isUserActive THEN CaptureNow(visibilityState, text, throws) ELSE NoCapture
       IN /\ c.ok
          /\ ApplyCapture(c)
          /\ IF c.sched
             THEN ScheduleHeartbeat(c.backoff)
             ELSE UNCHANGED heartbeatTimer /\ scheduled' = FALSE
  /\ initialTimer' = NoTimer
  /\ sinceDebounce' = IF attempt' = "none" THEN sinceDebounce ELSE NoTimer
  /\ UNCHANGED <<visibilityState, isUserActive, activityTimer, saveData,
                 batteryFactor, tokenExchangeUrl>>

\* the sendMessage callback of postCapture: the headers and body are built from
\* the response (resp.token, resp.email) and the fetch is started
LookupResponse(r) ==
  /\ requests[r].from = "content"
  /\ requests[r].pc = "responded"
  /\ requests' = [requests EXCEPT ![r].pc = "post",
                                  ![r].authorization = requests[r].resp.token]
  /\ Idle
  /\ UNCHANGED <<visibilityState, lastCapturedHash, isUserActive, backoffMult,
                 activityTimer, heartbeatTimer, initialTimer, saveData, batteryFactor,
                 store, tokenExchangeUrl, consecFails, sinceDebounce>>

\* the fetch of postCapture settles: "ok" (r.ok), "notok" (!r.ok) or "error" (it
\* throws); then the finally block
PostSettle(r) ==
  /\ requests[r].pc = "post"
  /\ \E outcome \in {"ok", "notok", "error"} :
       LET b == IF outcome = "ok" THEN BackoffOnSuccess(backoffMult)
                ELSE BackoffOnFailure(backoffMult)
       IN /\ backoffMult' = b
          /\ consecFails' = IF outcome = "ok" THEN 0 ELSE Min(MaxFails, consecFails + 1)
          /\ postFailed' = (outcome # "ok")
          /\ ScheduleHeartbeat(b)
  /\ requests' = [requests EXCEPT ![r] = FreeReq]
  /\ Quiet
  /\ UNCHANGED <<visibilityState, lastCapturedHash, isUserActive, activityTimer,
                 initialTimer, saveData, batteryFactor, store, tokenExchangeUrl,
                 sinceDebounce>>

---------------------------------------------------------------------------
(* The page and the device *)

\* navigator.connection.saveData changes
SaveDataChange ==
  /\ saveData' = ~saveData
  /\ Idle
  /\ UNCHANGED <<visibilityState, lastCapturedHash, isUserActive, backoffMult,
                 activityTimer, heartbeatTimer, initialTimer, batteryFactor,
                 store, requests, tokenExchangeUrl, consecFails, sinceDebounce>>

\* updateBattery on a levelchange or chargingchange event
BatteryChange ==
  /\ \E charging \in BOOLEAN, level \in {10, 20, 60} :
       /\ batteryFactor' = BatteryFactorOf(charging, level)
       /\ batteryFactor' # batteryFactor
  /\ Idle
  /\ UNCHANGED <<visibilityState, lastCapturedHash, isUserActive, backoffMult,
                 activityTimer, heartbeatTimer, initialTimer, saveData,
                 store, requests, tokenExchangeUrl, consecFails, sinceDebounce>>

\* d ms pass, up to the next timer that is due (a pending timer fires no later
\* than it is due): d is the time left on a pending timer or one of TimeSteps
Pending(t) == t # NoTimer
Elapse(t, d) == IF Pending(t) THEN t - d ELSE t
\* a stored expiry d ms later; one that Date.now() has reached stays at 0
ElapseExpiry(e, d) == IF e = NoExpiry THEN e ELSE Max(0, e - d)
Timers == {activityTimer, heartbeatTimer, initialTimer}
Durations ==
  {t \in Timers : t > 0} \cup (IF \E t \in Timers : Pending(t) THEN {} ELSE TimeSteps)
Advance ==
  /\ \E d \in Durations :
       /\ \A t \in Timers : Pending(t) => d <= t
       /\ activityTimer' = Elapse(activityTimer, d)
       /\ heartbeatTimer' = Elapse(heartbeatTimer, d)
       /\ initialTimer' = Elapse(initialTimer, d)
       /\ store' = [store EXCEPT !.access_token_expires_at = ElapseExpiry(@, d)]
       /\ sinceDebounce' = IF sinceDebounce = NoTimer THEN NoTimer
                           ELSE Min(HEARTBEAT_BASE, sinceDebounce + d)
  /\ Idle
  /\ UNCHANGED <<visibilityState, lastCapturedHash, isUserActive, backoffMult,
                 saveData, batteryFactor, requests, tokenExchangeUrl, consecFails>>

---------------------------------------------------------------------------
(* background.js *)

EmptyStore ==
  [access_token |-> None, access_token_expires_at |-> NoExpiry,
   auth_state |-> None, code_verifier |-> None,
   user_email |-> None, lastCapturedText |-> << >>]

\* variant: a token that expires exactly at the margin still counts
TokenValidAtMargin(tok, exp) == tok # None /\ exp # NoExpiry /\ exp >= EXPIRY_MARGIN
\* the test of getToken on what it read from the store; exp is relative to
\* Date.now(), so exp > now + 30000 reads exp > 30000
TokenValid(tok, exp) ==
  tok # None /\ exp # NoExpiry /\ exp > EXPIRY_MARGIN

\* Date.now() + expires_in * 1000, relative to Date.now(), or null without
\* expires_in (0 stands for absent)
ExpiresAt(expiresIn) == IF expiresIn = 0 THEN NoExpiry ELSE expiresIn * 1000

\* sendResponse(resp)
Respond(req, resp) == [req EXCEPT !.pc = "responded", !.resp = resp, !.sent = @ + 1]

\* variant: a rejection that no catch turns into a response
RejectUncaught(req, why) == [req EXCEPT !.outcome = why, !.pc = "uncaught"]
\* variant: a rejected flow answered like a resolved one
RejectAnsweredOk(req, why) ==
  Respond([req EXCEPT !.outcome = why],
          IF req.type = "START_LOGIN" THEN [NoResp EXCEPT !.kind = "ok"]
          ELSE [NoResp EXCEPT !.kind = "token"])
\* startAuthFlow rejects: the catch of START_LOGIN answers ok:false, the catch of
\* getToken returns null, which both callers answer with no_token
Reject(req, why) ==
  Respond([req EXCEPT !.outcome = why],
          IF req.type = "START_LOGIN" THEN [NoResp EXCEPT !.kind = "fail"]
          ELSE [NoResp EXCEPT !.kind = "no_token"])

\* startAuthFlow resolves with tok: START_LOGIN answers ok:true, GET_ACCESS_TOKEN
\* answers the token, GET_USER_EMAIL goes on to the userinfo fetch
Resolve(req, tok) ==
  IF req.type = "START_LOGIN"
  THEN Respond(req, [NoResp EXCEPT !.kind = "ok", !.token = tok])
  ELSE IF req.type = "GET_ACCESS_TOKEN"
  THEN Respond(req, [NoResp EXCEPT !.kind = "token", !.token = tok])
  ELSE [req EXCEPT !.pc = "userinfo"]

BgUnchanged ==
  /\ Idle
  /\ UNCHANGED <<schedVars, tokenExchangeUrl, consecFails, sinceDebounce>>

\* chrome.runtime.sendMessage from another context (popup.js, or a page's lookup)
SendMessage ==
  /\ Cardinality({r \in ReqIds : requests[r] # FreeReq}) < MaxInFlight
  /\ \E m \in {[type |-> "START_LOGIN", interactive |-> FALSE, from |-> "popup"],
               [type |-> "LOGOUT", interactive |-> FALSE, from |-> "popup"],
               [type |-> "GET_ACCESS_TOKEN", interactive |-> FALSE, from |-> "popup"],
               [type |-> "GET_ACCESS_TOKEN", interactive |-> TRUE, from |-> "popup"],
               [type |-> "GET_USER_EMAIL", interactive |-> FALSE, from |-> "popup"],
               [type |-> "GET_USER_EMAIL", interactive |-> TRUE, from |-> "popup"],
               [type |-> ContentLookupMsg.type, interactive |-> ContentLookupMsg.interactive,
                from |-> "content"]} :
       requests' = [requests EXCEPT ![FirstFree(requests)] =
                      NewReq(m.type, m.interactive, m.from)]
  /\ UNCHANGED store
  /\ BgUnchanged

\* variant: getToken starts the flow for any request
InteractiveAlways(req) == TRUE
\* whether getToken goes on to startAuthFlow when no valid token is stored
Interactive(req) == req.interactive

\* getToken: the read of the store and the test on it
GetToken(r) ==
  /\ requests[r].pc = "recv"
  /\ LET req == requests[r]
     IN requests' = [requests EXCEPT ![r] =
          IF TokenValid(store.access_token, store.access_token_expires_at)
          THEN Resolve([req EXCEPT !.token = store.access_token, !.outcome = "cached"],
                       store.access_token)
          ELSE IF ~Interactive(req)
          THEN Respond([req EXCEPT !.outcome = "no_credential"],
                       [NoResp EXCEPT !.kind = "no_token"])
          ELSE [req EXCEPT !.pc = "authInit"]]
  /\ UNCHANGED store
  /\ BgUnchanged

\* startAuthFlow up to launchWebAuthFlow: the nonce and the code verifier are
\* drawn and persisted, the authorization UI is launched
AuthInit(r) ==
  /\ requests[r].pc = "authInit"
  /\ \E n \in Nonces, v \in Verifiers :
       /\ store' = [store EXCEPT !.auth_state = n, !.code_verifier = v]
       /\ requests' = [requests EXCEPT ![r].pc = "awaitingRedirect",
                                       ![r].launched = TRUE,
                                       ![r].state = n]
  /\ BgUnchanged

\* variant: the fragment token is used only when the redirect has no code
UseFragmentUnlessCode(fragTok, code) == fragTok # None /\ code = None
\* the test on accessTokenFromFrag, made before the redirect's code is looked at
UseFragment(fragTok, code) == fragTok # None

\* variant: the exchange is made whether or not an endpoint is configured
ExchangeConfiguredAlways(url) == TRUE
\* the test on AUTH_CONFIG.tokenExchangeUrl made before the exchange fetch
ExchangeConfigured(url) == url

\* variant: a redirect whose state does not match is refused
ProceedAfterStateCheckOnlyOnMatch(mismatch) == ~mismatch
\* the comparison of the returned state with _auth_state only warns: the
\* callback goes on whatever its result
ProceedAfterStateCheck(mismatch) == TRUE

\* the launchWebAuthFlow callback, up to its first storage write or fetch
Redirect(r) ==
  /\ requests[r].pc = "awaitingRedirect"
  /\ \/ \E why \in {"cancelled", "no_redirect"} :
          requests' = [requests EXCEPT ![r] = Reject(requests[r], why)]
     \/ \E fragTok \in Tokens \cup {None}, code \in Codes \cup {None},
           returnedState \in Nonces \cup {None}, expiresIn \in ExpiresIn \cup {0} :
          LET req == [requests[r] EXCEPT
                        !.fragTok = fragTok, !.code = code,
                        !.mismatch = (store.auth_state = None
                                      \/ store.auth_state # returnedState)]
          IN requests' = [requests EXCEPT ![r] =
               IF ~ProceedAfterStateCheck(req.mismatch)
               THEN Reject(req, "state_mismatch")
               ELSE IF UseFragment(fragTok, code)
               THEN [req EXCEPT !.pc = "persist", !.token = fragTok,
                                !.expiresIn = expiresIn,
                                !.outcome = "fragment"]
               ELSE IF code # None
               THEN IF ~ExchangeConfigured(tokenExchangeUrl)
                    THEN Reject(req, "no_exchange_url")
                    ELSE [req EXCEPT !.pc = "exchange", !.exchanged = TRUE,
                                     !.sentVerifier = store.code_verifier]
               ELSE Reject(req, "no_token_or_code")]
  /\ UNCHANGED store
  /\ BgUnchanged

\* the token-exchange fetch settles
ExchangeSettle(r) ==
  /\ requests[r].pc = "exchange"
  /\ \/ \E tok \in Tokens, expiresIn \in ExpiresIn \cup {0} :
          requests' = [requests EXCEPT ![r].pc = "persist", ![r].token = tok,
                                       ![r].expiresIn = expiresIn,
                                       ![r].outcome = "exchanged"]
     \/ requests' = [requests EXCEPT ![r] = Reject(requests[r], "exchange_failed")]
  /\ UNCHANGED store
  /\ BgUnchanged

\* expiresAt is computed from Date.now() and the credential is written by
\* storage.local.set, then the flow resolves
Persist(r) ==
  /\ requests[r].pc = "persist"
  /\ store' = [store EXCEPT !.access_token = requests[r].token,
                            !.access_token_expires_at = ExpiresAt(requests[r].expiresIn)]
  /\ requests' = [requests EXCEPT ![r] =
                    Resolve([requests[r] EXCEPT !.wrote = TRUE], requests[r].token)]
  /\ BgUnchanged

\* the userinfo fetch of GET_USER_EMAIL settles
UserinfoSettle(r) ==
  /\ requests[r].pc = "userinfo"
  /\ \/ \E e \in Emails :
          /\ store' = [store EXCEPT !.user_email = e]
          /\ requests' = [requests EXCEPT ![r] =
               Respond(requests[r], [kind |-> "email", token |-> requests[r].token, email |-> e])]
     \/ /\ \E kind \in {"userinfo_failed", "error"} :
             requests' = [requests EXCEPT ![r] =
               Respond(requests[r], [NoResp EXCEPT !.kind = kind])]
        /\ UNCHANGED store
  /\ BgUnchanged

\* LOGOUT: the read of access_token
LogoutRead(r) ==
  /\ requests[r].pc = "logoutRead"
  /\ requests' = [requests EXCEPT ![r] =
       IF store.access_token # None
       THEN [requests[r] EXCEPT !.pc = "revoke", !.token = store.access_token]
       ELSE [requests[r] EXCEPT !.pc = "remove"]]
  /\ UNCHANGED store
  /\ BgUnchanged

\* LOGOUT: the revocation fetch settles, with any status or by throwing
RevokeSettle(r) ==
  /\ requests[r].pc = "revoke"
  /\ \E how \in {"revoked", "revoke_status", "revoke_threw"} :
       requests' = [requests EXCEPT ![r].pc = "remove", ![r].outcome = how]
  /\ UNCHANGED store
  /\ BgUnchanged

\* variant: only the credential is removed
LogoutKeysCredentialOnly == {"access_token", "access_token_expires_at"}
\* the keys LOGOUT removes (auth_state and code_verifier are the store's
\* _auth_state and _code_verifier)
LogoutKeys == {"access_token", "access_token_expires_at", "auth_state", "code_verifier"}

\* chrome.storage.local.remove(keys)
Remove(st, keys) == [k \in DOMAIN st |-> IF k \in keys THEN EmptyStore[k] ELSE st[k]]

\* startAuthFlow has been called for the request and has not settled
InAttempt(req) == req.pc \in {"authInit", "awaitingRedirect", "exchange", "persist"}

\* LOGOUT: storage.local.remove, then sendResponse; the attempts in flight at
\* that moment are marked beforeLogout, for observation
LogoutRemove(r) ==
  /\ requests[r].pc = "remove"
  /\ store' = Remove(store, LogoutKeys)
  /\ requests' = [q \in ReqIds |->
                    IF q = r
                    THEN Respond(requests[r], [NoResp EXCEPT !.kind = "ok"])
                    ELSE IF InAttempt(requests[q])
                    THEN [requests[q] EXCEPT !.beforeLogout = TRUE]
                    ELSE requests[q]]
  /\ BgUnchanged

\* the caller's callback takes the response
ConsumeResponse(r) ==
  /\ requests[r].pc = "responded"
  /\ requests' = [requests EXCEPT ![r] = FreeReq]
  /\ UNCHANGED store
  /\ BgUnchanged

---------------------------------------------------------------------------
(* Specifications *)

\* a store left by an earlier session
InitStores ==
  {EmptyStore} \cup
  {[EmptyStore EXCEPT !.access_token = "t1", !.access_token_expires_at = 31000]}

InitObs ==
  /\ attempt = "none"
  /\ handed = {}
  /\ consecFails = 0
  /\ postFailed = FALSE
  /\ sinceDebounce = NoTimer

\* a page has just run content.js; nobody is logged in
InitPage ==
  /\ visibilityState \in {"visible", "hidden"}
  /\ lastCapturedHash = << >>
  /\ isUserActive = FALSE
  /\ backoffMult = 1
  /\ activityTimer = NoTimer
  /\ batteryFactor = 1
  /\ heartbeatTimer = HeartbeatDelay(backoffMult, saveData, batteryFactor)
  /\ initialTimer = INITIAL_CAPTURE_DELAY
  /\ store = EmptyStore
  /\ requests = [r \in ReqIds |-> FreeReq]
  /\ tokenExchangeUrl = FALSE
  /\ scheduled = TRUE
  /\ InitObs

Init == saveData = FALSE /\ InitPage

\* one page and the background context answering its lookups, on a device whose
\* save-data preference and battery do not change
Next ==
  \/ UserActivity
  \/ ActivityTimerFire
  \/ HeartbeatFire
  \/ VisibilityChange
  \/ InitialCaptureFire
  \/ \E r \in ReqIds : LookupResponse(r)
  \/ \E r \in ReqIds : PostSettle(r)
  \/ Advance
  \/ \E r \in ReqIds : GetToken(r)

Spec == Init /\ [][Next]_vars

\* the same, with the save-data preference and the battery changing
InitEnv == saveData \in BOOLEAN /\ InitPage

NextEnv ==
  \/ Next
  \/ SaveDataChange
  \/ BatteryChange

SpecEnv == InitEnv /\ [][NextEnv]_vars

\* a page has just run content.js while the store holds the credential of an
\* earlier login
InitDeliver ==
  /\ visibilityState \in {"visible", "hidden"}
  /\ lastCapturedHash = << >>
  /\ isUserActive = FALSE
  /\ backoffMult = 1
  /\ activityTimer = NoTimer
  /\ saveData = FALSE
  /\ batteryFactor = 1
  /\ heartbeatTimer = HeartbeatDelay(backoffMult, saveData, batteryFactor)
  /\ initialTimer = INITIAL_CAPTURE_DELAY
  /\ store \in InitStores \ {EmptyStore}
  /\ requests = [r \in ReqIds |-> FreeReq]
  /\ tokenExchangeUrl = FALSE
  /\ scheduled = TRUE
  /\ InitObs

\* the page, left alone by the user, and the background context answering its
\* lookups with the userinfo fetch
NextDeliver ==
  \/ HeartbeatFire
  \/ VisibilityChange
  \/ InitialCaptureFire
  \/ \E r \in ReqIds : LookupResponse(r)
  \/ \E r \in ReqIds : PostSettle(r)
  \/ Advance
  \/ \E r \in ReqIds : GetToken(r)
  \/ \E r \in ReqIds : UserinfoSettle(r)

SpecDeliver == InitDeliver /\ [][NextDeliver]_vars

\* the background context alone, no page open
InitAuth ==
  /\ visibilityState = "hidden"
  /\ lastCapturedHash = << >>
  /\ isUserActive = FALSE
  /\ backoffMult = 1
  /\ activityTimer = NoTimer
  /\ saveData = FALSE
  /\ batteryFactor = 1
  /\ heartbeatTimer = NoTimer
  /\ initialTimer = NoTimer
  /\ store \in InitStores
  /\ requests = [r \in ReqIds |-> FreeReq]
  /\ tokenExchangeUrl \in BOOLEAN
  /\ scheduled = FALSE
  /\ InitObs

NextAuth ==
  \/ SendMessage
  \/ \E r \in ReqIds : GetToken(r)
  \/ \E r \in ReqIds : AuthInit(r)
  \/ \E r \in ReqIds : Redirect(r)
  \/ \E r \in ReqIds : ExchangeSettle(r)
  \/ \E r \in ReqIds : Persist(r)
  \/ \E r \in ReqIds : UserinfoSettle(r)
  \/ \E r \in ReqIds : LogoutRead(r)
  \/ \E r \in ReqIds : RevokeSettle(r)
  \/ \E r \in ReqIds : LogoutRemove(r)
  \/ \E r \in ReqIds : ConsumeResponse(r)
  \/ Advance

SpecAuth == InitAuth /\ [][NextAuth]_vars

\* the popup sends a message while earlier ones are still being handled: the
\* login button, an interactive token request, the logout button
SendMessageConcurrent ==
  /\ HasFree(requests)
  /\ \E m \in {[type |-> "START_LOGIN", interactive |-> FALSE],
               [type |-> "GET_ACCESS_TOKEN", interactive |-> TRUE],
               [type |-> "LOGOUT", interactive |-> FALSE]} :
       requests' = [requests EXCEPT ![FirstFree(requests)] =
                      NewReq(m.type, m.interactive, "popup")]
  /\ UNCHANGED store
  /\ BgUnchanged

\* the background context handling up to MaxReq messages at once
NextConcurrent ==
  \/ SendMessageConcurrent
  \/ \E r \in ReqIds : GetToken(r)
  \/ \E r \in ReqIds : AuthInit(r)
  \/ \E r \in ReqIds : Redirect(r)
  \/ \E r \in ReqIds : ExchangeSettle(r)
  \/ \E r \in ReqIds : Persist(r)
  \/ \E r \in ReqIds : LogoutRead(r)
  \/ \E r \in ReqIds : RevokeSettle(r)
  \/ \E r \in ReqIds : LogoutRemove(r)
  \/ \E r \in ReqIds : ConsumeResponse(r)

SpecConcurrent == InitAuth /\ [][NextConcurrent]_vars

---------------------------------------------------------------------------
(* Claims about the Capture Scheduler (content.js) *)

\* C1, as stated: of any two capture attempts whose texts share their first 200
\* characters the second is never handed to delivery, whatever was captured in
\* between; that is, a hash handed to postCapture was never handed before.
C1_NeverHandedTwice ==
  [][attempt' = "handed" => lastCapturedHash' \notin handed]_vars

\* C1, amended: a capture attempt whose text shares its first 200 characters with
\* the sample most recently handed to delivery is not handed to delivery; what is
\* handed differs in that prefix from the sample handed before it.
C1_NotHandedAfterSamePrefix ==
  [][/\ attempt' = "handed" =>
          /\ lastCapturedHash' # lastCapturedHash
          /\ lastCapturedHash' # << >>
     /\ attempt' = "duplicate" =>
          /\ lastCapturedHash' = lastCapturedHash
          /\ UNCHANGED <<handed, requests, backoffMult, store>>]_vars

\* an attempt on a 200-character prefix equal to the one last handed was dropped
C1_Witness ==
  /\ attempt = "duplicate"
  /\ Len(lastCapturedHash) = 200
  /\ visibilityState = "visible"

\* C2: after n consecutive delivery failures with no success in between
\* backoffMult is min(8, 2^n), and a success sets it to 1 (n = 0).
C2_BackoffAfterFailures ==
  backoffMult = Min(8, Pow2(consecFails))

\* four failures in a row: the ceiling, below 2^4
C2_Witness ==
  /\ consecFails = 4
  /\ backoffMult = 8

\* C3: backoffMult is always one of 1, 2, 4, 8.
C3_BackoffPowerOfTwo ==
  backoffMult \in {1, 2, 4, 8}

\* the ceiling is reached while a second delivery is still in flight
C3_Witness ==
  /\ backoffMult = 8
  /\ \E r \in ReqIds : requests[r].pc = "post"

\* C4: every heartbeat timer is set to max(5000, 20000 * backoffMult *
\* saveDataFactor * batteryFactor), saveDataFactor in {1,2}, batteryFactor in
\* {1,4}; the delay is never below 5000 and does not decrease when one of the
\* three factors grows.
C4_HeartbeatDelay ==
  /\ batteryFactor \in {1, 4}
  /\ scheduled =>
       /\ heartbeatTimer =
            Max(5000, 20000 * backoffMult * (IF saveData THEN 2 ELSE 1) * batteryFactor)
       /\ heartbeatTimer >= 5000
  /\ \A b1, b2 \in {1, 2, 4, 8}, s1, s2 \in BOOLEAN, f1, f2 \in {1, 4} :
       (b1 <= b2 /\ (s1 => s2) /\ f1 <= f2)
         => HeartbeatDelay(b1, s1, f1) <= HeartbeatDelay(b2, s2, f2)

\* a heartbeat scheduled with all three factors above 1
C4_Witness ==
  /\ scheduled
  /\ backoffMult = 2
  /\ saveData
  /\ batteryFactor = 4
  /\ heartbeatTimer = 320000

---------------------------------------------------------------------------
(* Claims about the Session Manager (background.js) *)

\* the steps of a request r
Received(r) == requests[r].pc = "recv" /\ requests'[r].pc # "recv"
InFlow(r) == requests[r].pc \in {"awaitingRedirect", "exchange", "persist"}
FlowEnds(r) == InFlow(r) /\ ~(requests'[r].pc \in {"awaitingRedirect", "exchange", "persist"})
FailedOutcomes ==
  {"cancelled", "no_redirect", "no_token_or_code", "exchange_failed", "no_exchange_url"}

\* C5: launchWebAuthFlow is launched only for START_LOGIN or for a request with
\* interactive = true; a request with interactive = false, the lookup of the
\* capture delivery path among them, never launches it and is answered no_token
\* when no valid cached credential is stored.
C5_LaunchOnlyWhenInteractive ==
  [][/\ ContentLookupMsg.interactive = FALSE
     /\ \A r \in ReqIds :
          /\ requests'[r].launched =>
               (requests'[r].type = "START_LOGIN" \/ requests'[r].interactive)
          /\ requests'[r].from = "content" => ~requests'[r].launched
          /\ (/\ Received(r)
              /\ ~requests[r].interactive
              /\ ~(store.access_token # None /\ store.access_token_expires_at > 30000))
             => /\ requests'[r].pc = "responded"
                /\ requests'[r].resp.kind = "no_token"
                /\ ~requests'[r].launched]_vars

\* the lookup of a page is answered no_token, without the UI, while the stored
\* token expires within the margin
C5_Witness ==
  \E r \in ReqIds :
    /\ requests[r].from = "content"
    /\ requests[r].pc = "responded"
    /\ requests[r].resp.kind = "no_token"
    /\ ~requests[r].launched
    /\ store.access_token # None

\* C6: getToken returns the cached token, with no fetch and no authorization UI,
\* exactly when a token is stored and its expiry is more than 30000 ms after now.
C6_CachedIffBeyondMargin ==
  [][\A r \in ReqIds :
       Received(r) =>
         /\ requests'[r].outcome = "cached"
              <=> (store.access_token # None /\ store.access_token_expires_at > 30000)
         /\ requests'[r].outcome = "cached" =>
              /\ requests'[r].token = store.access_token
              /\ ~requests'[r].launched
              /\ ~requests'[r].exchanged
              /\ store' = store]_vars

\* a token that expires 31000 ms from now was returned from the cache
C6_Witness ==
  \E r \in ReqIds :
    /\ requests[r].outcome = "cached"
    /\ requests[r].resp.token = store.access_token
    /\ store.access_token_expires_at = 31000

\* C7: when a LOGOUT request completes the store holds no access token, no
\* expiry, no nonce and no code verifier, whatever the revocation fetch did, and
\* the request is answered ok.
C7_LogoutClears ==
  [][\A r \in ReqIds :
       (/\ requests[r].type = "LOGOUT"
        /\ requests[r].pc # "responded"
        /\ requests'[r].pc = "responded")
       => /\ store'.access_token = None
          /\ store'.access_token_expires_at = NoExpiry
          /\ store'.auth_state = None
          /\ store'.code_verifier = None
          /\ requests'[r].resp.kind = "ok"]_vars

\* a LOGOUT whose revocation fetch threw has completed
C7_Witness ==
  \E r \in ReqIds :
    /\ requests[r].type = "LOGOUT"
    /\ requests[r].pc = "responded"
    /\ requests[r].outcome = "revoke_threw"
    /\ requests[r].token # None
    /\ store.access_token = None

\* C8: a redirect that carries an access token in its fragment, with or without
\* a code, leads to the token and its expiry being persisted and to the request
\* being resolved with that token, and no token-exchange fetch is made.
C8_FragmentWithoutExchange ==
  [][\A r \in ReqIds :
       requests'[r].fragTok # None =>
         /\ ~requests'[r].exchanged
         /\ requests'[r].pc \in {"persist", "userinfo", "responded"}
         /\ FlowEnds(r) =>
              /\ store'.access_token = requests'[r].fragTok
              /\ store'.access_token_expires_at =
                   (IF requests'[r].expiresIn = 0 THEN NoExpiry
                    ELSE requests'[r].expiresIn * 1000)
              /\ requests'[r].type = "START_LOGIN" =>
                   (requests'[r].resp.kind = "ok"
                    /\ requests'[r].resp.token = requests'[r].fragTok)
              /\ requests'[r].type = "GET_ACCESS_TOKEN" =>
                   (requests'[r].resp.kind = "token"
                    /\ requests'[r].resp.token = requests'[r].fragTok)]_vars

\* a START_LOGIN whose redirect carried both a token and a code, with a
\* token-exchange endpoint configured, has been answered
C8_Witness ==
  \E r \in ReqIds :
    /\ requests[r].type = "START_LOGIN"
    /\ requests[r].fragTok # None
    /\ requests[r].code # None
    /\ tokenExchangeUrl
    /\ requests[r].resp.kind = "ok"
    /\ store.access_token = requests[r].fragTok

\* C9: once the resolution of an authorization attempt completes, resolved or
\* rejected, the nonce and the code verifier written at its start are no longer
\* in the store.
C9_PendingAuthStateDiscarded ==
  [][\A r \in ReqIds :
       FlowEnds(r) =>
         /\ store'.auth_state = None
         /\ store'.code_verifier = None]_vars

\* C10: an authorization attempt that is rejected writes neither token nor
\* expiry, the stored credential is what it was, and the request is answered
\* with a failure: ok:false for START_LOGIN, no_token for an interactive
\* GET_ACCESS_TOKEN (and GET_USER_EMAIL).
C10_FailedWritesNothing ==
  [][\A r \in ReqIds :
       (InFlow(r) /\ requests'[r].outcome \in FailedOutcomes) =>
         /\ store'.access_token = store.access_token
         /\ store'.access_token_expires_at = store.access_token_expires_at
         /\ ~requests'[r].wrote
         /\ requests'[r].pc = "responded"
         /\ requests'[r].resp.kind =
              (IF requests'[r].type = "START_LOGIN" THEN "fail" ELSE "no_token")
         /\ requests'[r].resp.token = None]_vars

\* an interactive GET_ACCESS_TOKEN whose token exchange failed was answered
\* no_token and the credential of an earlier session is still stored
C10_Witness ==
  \E r \in ReqIds :
    /\ requests[r].type = "GET_ACCESS_TOKEN"
    /\ requests[r].interactive
    /\ requests[r].outcome = "exchange_failed"
    /\ requests[r].resp.kind = "no_token"
    /\ store.access_token = "t1"

\* a step of the handler of request r, or of an operation the handler awaits
HandlerStep(r) ==
  \/ GetToken(r)
  \/ AuthInit(r)
  \/ Redirect(r)
  \/ ExchangeSettle(r)
  \/ Persist(r)
  \/ UserinfoSettle(r)
  \/ LogoutRead(r)
  \/ RevokeSettle(r)
  \/ LogoutRemove(r)

\* C11: the handler of a START_LOGIN, GET_ACCESS_TOKEN, GET_USER_EMAIL or LOGOUT
\* request calls sendResponse exactly once: never twice, not before its last
\* awaited operation has settled, and as long as it has not responded a step of
\* the handler or of an operation it awaits is possible.
C11_ExactlyOneResponse ==
  \A r \in ReqIds :
    requests[r].pc # "free" =>
      /\ requests[r].sent <= 1
      /\ requests[r].sent = 1 <=> requests[r].pc \in {"responded", "post"}
      /\ requests[r].sent = 1 => requests[r].resp.kind # "none"
      /\ requests[r].sent = 0 => ENABLED HandlerStep(r)

\* a GET_USER_EMAIL that went through the authorization flow and the userinfo
\* fetch has been answered once
C11_Witness ==
  \E r \in ReqIds :
    /\ requests[r].type = "GET_USER_EMAIL"
    /\ requests[r].launched
    /\ requests[r].resp.kind = "userinfo_failed"
    /\ requests[r].sent = 1

---------------------------------------------------------------------------
(* Claims about the delivery path (content.js and background.js together) *)

\* C12: when getToken found a valid cached credential for the lookup of a
\* sample and that credential is still valid when the POST is built, the POST
\* carries it as the bearer Authorization header, also when the userinfo fetch
\* failed.
C12_BearerDespiteIdentityFailure ==
  [][\A r \in ReqIds :
       (/\ requests[r].from = "content"
        /\ requests[r].pc = "responded"
        /\ requests'[r].pc = "post"
        /\ requests[r].outcome = "cached"
        /\ store.access_token # None
        /\ store.access_token_expires_at > 30000)
       => requests'[r].authorization = store.access_token]_vars

---------------------------------------------------------------------------
(* Claims about the timers of the Capture Scheduler *)

\* C13: when the debounce timer fires, 5000 ms after the last activity event,
\* captureNow runs once; with the page visible and no further activity, no
\* capture attempt follows before the heartbeat interval, 20000 ms at neutral
\* factors and so at least 5000 ms, has passed since.
C13_OneAttemptThenHeartbeat ==
  [][/\ (activityTimer = 0 /\ activityTimer' = NoTimer) =>
          /\ attempt' # "none"
          /\ heartbeatTimer' >= 20000
          /\ initialTimer' = NoTimer
     /\ (attempt' # "none" /\ sinceDebounce # NoTimer) =>
          /\ sinceDebounce >= 20000
          /\ heartbeatTimer = 0]_vars

\* the heartbeat is due 20000 ms after the capture attempt of the debounce, on
\* a page that stayed visible and idle
C13_Witness ==
  /\ sinceDebounce = 20000
  /\ heartbeatTimer = 0
  /\ visibilityState = "visible"
  /\ ~isUserActive
  /\ lastCapturedHash # << >>

\* C14: from an activity event until the debounce timer fires no heartbeat
\* timer is pending and one debounce timer is pending, due at most 5000 ms
\* later, whatever delivery completions or visibility changes occur meanwhile.
C14_NoHeartbeatWhileActive ==
  [][/\ isUserActive' => (activityTimer' >= 0 /\ activityTimer' <= 5000)
     /\ (isUserActive' /\ ~isUserActive) => heartbeatTimer' = NoTimer
     /\ (isUserActive /\ isUserActive' /\ heartbeatTimer = NoTimer) =>
          heartbeatTimer' = NoTimer]_vars

\* C15: from the page becoming hidden until it becomes visible again no
\* heartbeat timer is pending, whatever debounce firings or delivery
\* completions occur while it is hidden.
C15_NoHeartbeatWhileHidden ==
  [][/\ (visibilityState = "visible" /\ visibilityState' # "visible") =>
          heartbeatTimer' = NoTimer
     /\ (/\ visibilityState # "visible"
         /\ visibilityState' # "visible"
         /\ heartbeatTimer = NoTimer) =>
          heartbeatTimer' = NoTimer]_vars

\* C16: whenever the page is visible and the scheduler is idle (no debounce
\* timer pending) a heartbeat timer is pending, and the heartbeat callback sets
\* the next one: nothing stops the loop on a visible, idle page.
C16_HeartbeatLoopRuns ==
  [][/\ isUserActive' <=> activityTimer' # NoTimer
     /\ (visibilityState' = "visible" /\ activityTimer' = NoTimer) =>
          heartbeatTimer' >= 0
     /\ (heartbeatTimer = 0 /\ heartbeatTimer' # 0 /\ UNCHANGED visibilityState
         /\ ~isUserActive /\ ~isUserActive') =>
          (scheduled' /\ heartbeatTimer' >= 5000)]_vars

\* the heartbeat fired on a visible, idle page after a failed delivery, its
\* capture was dropped as a duplicate, and the next heartbeat is pending
C16_Witness ==
  /\ visibilityState = "visible"
  /\ ~isUserActive
  /\ attempt = "duplicate"
  /\ consecFails > 0
  /\ sinceDebounce = NoTimer
  /\ heartbeatTimer = 40000

\* C17: a sample whose delivery failed is retried: when the only sample handed
\* to delivery so far is the text Short, its POST has failed and nothing is in
\* flight, a heartbeat that fires on the visible, idle page and finds the
\* same text does not drop it as a duplicate but issues another POST.
C17_FailedDeliveryRetried ==
  [][(/\ handed = {Short}
      /\ postFailed
      /\ \A r \in ReqIds : requests[r].pc = "free"
      /\ visibilityState = "visible" /\ visibilityState' = "visible"
      /\ ~isUserActive
      /\ heartbeatTimer = 0
      /\ initialTimer = NoTimer)
     => attempt' # "duplicate"]_vars

---------------------------------------------------------------------------
\* C18: while a delivery is outstanding (its fetch has not settled) the page
\* starts no second delivery: on a page that stays visible and idle, where only
\* the heartbeat captures, no new lookup-and-post is begun until the finally
\* block of the first has run.
C18_NoSecondDeliveryInFlight ==
  [][(/\ \E r \in ReqIds : requests[r].from = "content" /\ requests[r].pc = "post"
      /\ visibilityState = "visible" /\ visibilityState' = "visible"
      /\ ~isUserActive /\ activityTimer = NoTimer /\ initialTimer = NoTimer)
     => \A q \in ReqIds :
          requests[q].pc = "free" =>
            ~(requests'[q].pc # "free" /\ requests'[q].from = "content")]_vars

---------------------------------------------------------------------------
\* C19: a stored credential without an expiry (the provider supplied no
\* expires_in) is non-expiring: getToken, reading such a store, returns the
\* stored token from the cache and does not go on to the authorization flow.
C19_AbsentExpiryNeverExpires ==
  [][\A r \in ReqIds :
       (/\ Received(r)
        /\ store.access_token # None
        /\ store.access_token_expires_at = NoExpiry)
       => /\ requests'[r].outcome = "cached"
          /\ requests'[r].token = store.access_token
          /\ requests'[r].pc # "authInit"]_vars

---------------------------------------------------------------------------
\* the launchWebAuthFlow callback of request r has run on a redirect without a
\* fragment token and with an authorization code
CodeRedirect(r) ==
  /\ requests[r].pc = "awaitingRedirect"
  /\ requests'[r].pc # "awaitingRedirect"
  /\ requests'[r].fragTok = None
  /\ requests'[r].code # None

---------------------------------------------------------------------------
\* C21: a redirect whose returned state differs from the stored nonce, or that
\* arrives when no nonce is stored, is resolved like one whose state matches:
\* a fragment token is taken and persisted with its expiry, a code goes to the
\* exchange when an endpoint is configured, and the flow fails only for the
\* reasons a matching redirect fails for (neither token nor code, or no
\* exchange endpoint).
C21_MismatchStillResolved ==
  [][\A r \in ReqIds :
       /\ (/\ requests[r].pc = "awaitingRedirect"
           /\ requests'[r].pc # "awaitingRedirect"
           /\ requests'[r].mismatch) =>
            /\ requests'[r].fragTok # None =>
                 /\ requests'[r].pc = "persist"
                 /\ requests'[r].token = requests'[r].fragTok
                 /\ requests'[r].outcome = "fragment"
            /\ (requests'[r].fragTok = None /\ requests'[r].code # None
                /\ tokenExchangeUrl) => requests'[r].pc = "exchange"
            /\ requests'[r].pc = "responded" =>
                 /\ requests'[r].fragTok = None
                 /\ requests'[r].code = None \/ ~tokenExchangeUrl
                 /\ requests'[r].outcome \in {"no_token_or_code", "no_exchange_url"}
       /\ (/\ requests[r].pc = "persist"
           /\ requests[r].mismatch
           /\ requests'[r].pc # "persist") =>
            /\ requests'[r].wrote
            /\ requests'[r].resp.kind \notin {"fail", "no_token"}
            /\ store'.access_token = requests[r].token
            /\ store'.access_token_expires_at =
                 IF requests[r].expiresIn = 0 THEN NoExpiry
                 ELSE requests[r].expiresIn * 1000]_vars

\* a flow whose redirect did not match the stored nonce has persisted its
\* fragment token, which is the stored credential
C21_Witness ==
  \E r \in ReqIds :
    /\ requests[r].mismatch
    /\ requests[r].outcome = "fragment"
    /\ requests[r].wrote
    /\ store.auth_state # None
    /\ store.access_token = requests[r].token

---------------------------------------------------------------------------
\* C22: a capture attempt that runs while the page is not visible, or extracts
\* an empty text, or extracts a text whose fingerprint equals lastCapturedHash,
\* is dropped: it changes neither lastCapturedHash nor backoffMult, writes
\* nothing to the store and starts no request; only an attempt on a visible
\* page with a non-empty, different fingerprint is handed on.
C22_DroppedAttemptChangesNothing ==
  [][/\ attempt' \in {"dropped", "duplicate"} =>
          UNCHANGED <<lastCapturedHash, backoffMult, store, requests, handed,
                      consecFails>>
     /\ attempt' = "handed" =>
          /\ visibilityState' = "visible"
          /\ lastCapturedHash' # << >>
          /\ lastCapturedHash' # lastCapturedHash
          /\ store'.lastCapturedText # << >>]_vars

\* an attempt was dropped, for emptiness or invisibility, after a sample had
\* been handed on and deliveries had failed
C22_Witness ==
  /\ attempt = "dropped"
  /\ lastCapturedHash # << >>
  /\ backoffMult > 1
  /\ store.lastCapturedText # << >>

---------------------------------------------------------------------------
\* C23: sampling is paused while the user is active: in no state where
\* isUserActive is true has a capture attempt just run and handed a sample to
\* delivery, whether from a timer, a visibility change or the initial capture.
C23_NoCaptureWhileActive ==
  attempt = "handed" => ~isUserActive

---------------------------------------------------------------------------
\* C24: when the page goes from hidden to visible, one capture attempt runs in
\* the listener and a heartbeat timer is pending afterwards, set to the
\* effective interval computed from backoffMult, saveData and batteryFactor as
\* they are once the attempt has run.
C24_VisibleAgainCapturesAndRestarts ==
  [][(visibilityState # "visible" /\ visibilityState' = "visible") =>
       /\ attempt' # "none"
       /\ scheduled'
       /\ heartbeatTimer' = effectiveInterval(backoffMult', saveData', batteryFactor')
       /\ UNCHANGED <<isUserActive, activityTimer, initialTimer>>]_vars

\* the page has just become visible before its initial capture was due; the
\* listener handed a sample on and the heartbeat is set to a lengthened interval
C24_Witness ==
  /\ visibilityState = "visible"
  /\ attempt = "handed"
  /\ initialTimer > 0
  /\ scheduled
  /\ heartbeatTimer = effectiveInterval(backoffMult, saveData, batteryFactor)
  /\ heartbeatTimer > HEARTBEAT_BASE

---------------------------------------------------------------------------
\* an authorization redirect (not a cancellation) reaches the callback of r
RedirectArrives(r) ==
  /\ requests[r].pc = "awaitingRedirect"
  /\ requests'[r].pc # "awaitingRedirect"
  /\ requests'[r].outcome \notin {"cancelled", "no_redirect"}

\* C25: with two authorization attempts in flight, the redirect of each is
\* resolved against the nonce that the same attempt generated when it started:
\* the nonce the callback reads from the store is the attempt's own.
C25_ResolvedAgainstOwnNonce ==
  [][\A r \in ReqIds :
       RedirectArrives(r) => store.auth_state = requests[r].state]_vars

---------------------------------------------------------------------------
\* C26: an authorization attempt that was in flight when a logout removed the
\* credential and was answered ok does not write a credential afterwards: the
\* store stays without access token until a login started later succeeds.
C26_LogoutNotUndone ==
  [][\A r \in ReqIds :
       requests[r].beforeLogout => ~requests'[r].wrote]_vars

---------------------------------------------------------------------------
\* C27: the cached identity does not outlive the credential it was resolved
\* from: whenever the store holds no access token, in particular after a
\* logout, it holds no user email either.
C27_NoEmailWithoutToken ==
  store.access_token = None => store.user_email = None

====
